---- MODULE Spec2Model ----
(***************************************************************************)
(* Model of app.py: the Flask emotion-detection app.  The state is the     *)
(* SQLite store emotion_users.db (table users and its AUTOINCREMENT        *)
(* counter), the captured/ directory, the wall clock, the camera, and the  *)
(* position and locals of the single generate_frames generator.            *)
(***************************************************************************)
EXTENDS Integers, Sequences, FiniteSets, TLC

VARIABLES
  procPc,          \* "import": module body not yet run; "serving": routes live
  tableExists,     \* emotion_users.db holds the users table
  rows,            \* the rows of users, in insertion (rowid) order
  seq,             \* sqlite_sequence for users: the largest id ever given
  artifacts,       \* captured/: function from file name to the image written
  now,             \* the system clock, in ticks (TicksPerSec ticks a second)
  camFrames,       \* frames the camera has delivered so far
  genPc,           \* position of the generate_frames generator
  frame,           \* its local `frame`
  emotion,         \* its local `emotion`
  image_filename,  \* its local `image_filename`
  exc,             \* the exception that ended the generator, or "none"
  nread,           \* successful cap.read() calls of this generator
  nyield,          \* payloads this generator has yielded
  requested,       \* next() calls the consumer has made on this generator
  base,            \* Len(rows) when this generator was created
  runFrames,       \* the frames this generator has read, in order
  listing,         \* what /users fetched, if the step just taken was /users
  written,         \* history: frame id -> clock second of its cv2.imwrite
  rowFrame,        \* history: for each row, the id of the frame it was made for
  call             \* the last direct save_user_result call and its outcome

vars == <<procPc, tableExists, rows, seq, artifacts, now, camFrames, genPc,
          frame, emotion, image_filename, exc, nread, nyield, requested,
          base, runFrames, listing, written, rowFrame, call>>

dbVars  == <<tableExists, rows, seq>>
genVars == <<genPc, frame, emotion, image_filename, exc, nread, nyield,
             requested, base, runFrames>>

----------------------------------------------------------------------------
(* Bounds of the model. *)

MaxFrames == 3     \* frames the camera delivers in all
MaxTicks == 3      \* clock ticks in all
TicksPerSec == 2   \* clock resolution below one second
MaxRows == 3       \* rows direct save_user_result calls may write (SpecLog)

(* Program constants. *)

SecPerMin == 60

NULL == "NULL"     \* Python None, SQL NULL

SENTINEL == "No face detected"

\* The labels DeepFace can return; one label stands for the closed set.
Emotions == {"happy"}

\* What the camera can show: a face with an emotion, or nothing analysable.
Contents == Emotions \cup {"unanalysable"}

NoFrame == [kind |-> "none", id |-> 0, content |-> "", text |-> <<>>]

NoFile == <<>>

NoListing == [status |-> "none", rows |-> <<>>]

NoCall == [status |-> "none", name |-> "", usage_mode |-> "", exc |-> "none",
           before |-> <<>>]

----------------------------------------------------------------------------
(* Clock and formatting. *)

\* datetime.now() / CURRENT_TIMESTAMP both drop everything below the second.
Second(t) == t \div TicksPerSec

\* Faulty variant: the name keeps the clock's sub-second part.
ImageFilename_SubSecond(t) ==
  <<"captured/", Second(t) \div SecPerMin, Second(t) % SecPerMin, t, ".jpg">>

\* f"captured/{datetime.now().strftime('%Y%m%d_%H%M%S')}.jpg"
ImageFilename(t) ==
  <<"captured/", Second(t) \div SecPerMin, Second(t) % SecPerMin, ".jpg">>

\* CURRENT_TIMESTAMP: 'YYYY-MM-DD HH:MM:SS' text
CurrentTimestamp(t) == <<Second(t) \div SecPerMin, Second(t) % SecPerMin>>

\* Text comparison of two timestamps (fixed width, so field by field).
TsLess(a, b) == a[1] < b[1] \/ (a[1] = b[1] /\ a[2] < b[2])

----------------------------------------------------------------------------
(* The store. *)

\* CHECK(usage_mode IN ('online','offline')): a CHECK constraint is violated
\* only when its expression is false; NULL IN (...) is NULL, which passes.
CheckUsageMode(mode) == mode = NULL \/ mode \in {"online", "offline"}

\* name TEXT NOT NULL
CheckName(name) == name # NULL

\* INSERT INTO users (name, usage_mode, image_path, detected_emotion): the
\* store gives the id (AUTOINCREMENT) and the timestamp (CURRENT_TIMESTAMP).
InsertRow(rs, sq, t, name, usage_mode, image_path, emo) ==
  IF ~(CheckName(name) /\ CheckUsageMode(usage_mode))
  THEN [rows |-> rs, seq |-> sq, exc |-> "IntegrityError"]
  ELSE [rows |-> Append(rs, [id |-> sq + 1,
                             name |-> name,
                             usage_mode |-> usage_mode,
                             image_path |-> image_path,
                             detected_emotion |-> emo,
                             timestamp |-> CurrentTimestamp(t)]),
        seq |-> sq + 1,
        exc |-> "none"]

\* Faulty variant: frames without a face are not logged.
SaveUserResult_SkipNoFace(rs, sq, t, avail, name, usage_mode, image_path, emo) ==
  IF ~avail THEN [rows |-> rs, seq |-> sq, exc |-> "OperationalError"]
  ELSE IF emo = SENTINEL THEN [rows |-> rs, seq |-> sq, exc |-> "none"]
  ELSE InsertRow(rs, sq, t, name, usage_mode, image_path, emo)

\* save_user_result, as a function of the store and the clock.
\* avail: the database file can be opened and written (not locked, not full).
\* Result: the new rows, the new counter and the exception raised ("none").
SaveUserResult(rs, sq, t, avail, name, usage_mode, image_path, emo) ==
  IF ~avail THEN [rows |-> rs, seq |-> sq, exc |-> "OperationalError"]
  ELSE InsertRow(rs, sq, t, name, usage_mode, image_path, emo)

\* s is rs reordered by the permutation p.
Reorder(rs, p) == [i \in 1..Len(rs) |-> rs[p[i]]]

Permutations1(n) ==
  {p \in [1..n -> 1..n] : \A i, j \in 1..n : i # j => p[i] # p[j]}

\* ORDER BY timestamp DESC: no row is followed by one with a later timestamp.
OrderedByTimestampDesc(s) ==
  \A i, j \in 1..Len(s) : i < j => ~TsLess(s[i].timestamp, s[j].timestamp)

\* SELECT * FROM users ORDER BY timestamp DESC: every order of the rows that
\* the ORDER BY allows; rows with equal timestamps come in no defined order.
SelectAllOrderByTimestampDesc(rs) ==
  {s \in {Reorder(rs, p) : p \in Permutations1(Len(rs))} :
     OrderedByTimestampDesc(s)}

----------------------------------------------------------------------------
(* The classifier and the annotator. *)

\* Faulty variant: the except branch gives another label.
AnalyzeEmotion_OtherLabel(f) ==
  IF f.content \in Emotions THEN f.content ELSE "neutral"

\* DeepFace.analyze(frame, actions=['emotion'], enforce_detection=False),
\* then result[0]['dominant_emotion']; any exception gives the sentinel.
AnalyzeEmotion(f) == IF f.content \in Emotions THEN f.content ELSE SENTINEL

\* cv2.putText(frame, f'Mood: {emotion}', ...): draws on the frame in place.
PutText(f, emo) == [f EXCEPT !.kind = "annotated", !.text = <<"Mood: ", emo>>]

\* cv2.imencode('.jpg', frame) then buffer.tobytes()
Imencode(f) == [f EXCEPT !.kind = "jpeg"]

----------------------------------------------------------------------------
(* Initial state: a fresh checkout, nothing run yet. *)

GenReset ==
  /\ genPc' = "none"
  /\ frame' = NoFrame
  /\ emotion' = ""
  /\ image_filename' = NoFile
  /\ exc' = "none"
  /\ nread' = 0
  /\ nyield' = 0
  /\ requested' = 0
  /\ base' = 0
  /\ runFrames' = <<>>

Init ==
  /\ procPc = "import"
  /\ tableExists = FALSE
  /\ rows = <<>>
  /\ seq = 0
  /\ artifacts = <<>>
  /\ now = 0
  /\ camFrames = 0
  /\ genPc = "none"
  /\ frame = NoFrame
  /\ emotion = ""
  /\ image_filename = NoFile
  /\ exc = "none"
  /\ nread = 0
  /\ nyield = 0
  /\ requested = 0
  /\ base = 0
  /\ runFrames = <<>>
  /\ listing = NoListing
  /\ written = <<>>
  /\ rowFrame = <<>>
  /\ call = NoCall

----------------------------------------------------------------------------
(* Environment. *)

Tick ==
  /\ now < MaxTicks
  /\ now' = now + 1
  /\ UNCHANGED <<procPc, dbVars, artifacts, camFrames, genVars>>
  /\ listing' = NoListing
  /\ UNCHANGED <<written, rowFrame, call>>

\* The process is killed and started again: the store and captured/ stay.
Restart ==
  /\ procPc = "serving"
  /\ procPc' = "import"
  /\ GenReset
  /\ UNCHANGED <<dbVars, artifacts, now, camFrames>>
  /\ listing' = NoListing
  /\ UNCHANGED <<written, rowFrame, call>>

----------------------------------------------------------------------------
(* Module body: cap = cv2.VideoCapture(0) ... init_db(). *)

\* Faulty variant: DROP TABLE IF EXISTS users; CREATE TABLE users (...)
init_db_DropAndCreate ==
  /\ tableExists' = TRUE
  /\ rows' = <<>>
  /\ seq' = 0

\* CREATE TABLE IF NOT EXISTS users (...)
init_db ==
  /\ tableExists' = TRUE
  /\ rows' = IF tableExists THEN rows ELSE <<>>
  /\ seq' = IF tableExists THEN seq ELSE 0

Import ==
  /\ procPc = "import"
  /\ init_db
  /\ procPc' = "serving"
  /\ UNCHANGED <<artifacts, now, camFrames, genVars>>
  /\ listing' = NoListing
  /\ UNCHANGED <<written, rowFrame, call>>

----------------------------------------------------------------------------
(* /video_feed and the generator generate_frames, one step at a time. *)

\* Response(generate_frames(), ...): the generator object is made, its body
\* has not started.  One consumer at a time.
VideoFeed ==
  /\ procPc = "serving"
  /\ genPc \in {"none", "done", "raised"}
  /\ genPc' = "created"
  /\ base' = Len(rows)
  /\ frame' = NoFrame
  /\ emotion' = ""
  /\ image_filename' = NoFile
  /\ exc' = "none"
  /\ nread' = 0
  /\ nyield' = 0
  /\ requested' = 0
  /\ runFrames' = <<>>
  /\ UNCHANGED <<procPc, dbVars, artifacts, now, camFrames>>
  /\ listing' = NoListing
  /\ UNCHANGED <<written, rowFrame, call>>

\* The transport asks for the next payload: next() starts or resumes the body.
NextPayload ==
  /\ procPc = "serving"
  /\ genPc \in {"created", "suspended"}
  /\ genPc' = "read"
  /\ requested' = requested + 1
  /\ UNCHANGED <<procPc, dbVars, artifacts, now, camFrames, frame, emotion,
                 image_filename, exc, nread, nyield, base, runFrames>>
  /\ listing' = NoListing
  /\ UNCHANGED <<written, rowFrame, call>>

\* Faulty variant: a failed read raises instead of breaking out of the loop.
CapRead_RaiseOnFailure ==
  /\ procPc = "serving"
  /\ genPc = "read"
  /\ \/ /\ camFrames < MaxFrames
        /\ \E c \in Contents :
             /\ frame' = [kind |-> "raw", id |-> camFrames + 1,
                          content |-> c, text |-> <<>>]
             /\ runFrames' = Append(runFrames, frame')
        /\ camFrames' = camFrames + 1
        /\ nread' = nread + 1
        /\ genPc' = "analyze"
        /\ exc' = exc
     \/ /\ genPc' = "raised"
        /\ exc' = "CaptureError"
        /\ UNCHANGED <<frame, runFrames, camFrames, nread>>
  /\ UNCHANGED <<procPc, dbVars, artifacts, now, emotion, image_filename,
                 nyield, requested, base>>
  /\ listing' = NoListing
  /\ UNCHANGED <<written, rowFrame, call>>

\* success, frame = cap.read(); if not success: break
CapRead ==
  /\ procPc = "serving"
  /\ genPc = "read"
  /\ \/ /\ camFrames < MaxFrames
        /\ \E c \in Contents :
             /\ frame' = [kind |-> "raw", id |-> camFrames + 1,
                          content |-> c, text |-> <<>>]
             /\ runFrames' = Append(runFrames, frame')
        /\ camFrames' = camFrames + 1
        /\ nread' = nread + 1
        /\ genPc' = "analyze"
     \/ /\ genPc' = "done"
        /\ UNCHANGED <<frame, runFrames, camFrames, nread>>
  /\ UNCHANGED <<procPc, dbVars, artifacts, now, emotion, image_filename,
                 exc, nyield, requested, base>>
  /\ listing' = NoListing
  /\ UNCHANGED <<written, rowFrame, call>>

\* try: result = DeepFace.analyze(...); emotion = ... except: emotion = ...
Analyze ==
  /\ procPc = "serving"
  /\ genPc = "analyze"
  /\ emotion' = AnalyzeEmotion(frame)
  /\ genPc' = "putText"
  /\ UNCHANGED <<procPc, dbVars, artifacts, now, camFrames, frame,
                 image_filename, exc, nread, nyield, requested, base,
                 runFrames>>
  /\ listing' = NoListing
  /\ UNCHANGED <<written, rowFrame, call>>

Annotate ==
  /\ procPc = "serving"
  /\ genPc = "putText"
  /\ frame' = PutText(frame, emotion)
  /\ genPc' = "imwrite"
  /\ UNCHANGED <<procPc, dbVars, artifacts, now, camFrames, emotion,
                 image_filename, exc, nread, nyield, requested, base,
                 runFrames>>
  /\ listing' = NoListing
  /\ UNCHANGED <<written, rowFrame, call>>

\* The file of that name in captured/ is created or replaced.
WriteFile(fs, path, img) ==
  [p \in (DOMAIN fs) \cup {path} |-> IF p = path THEN img ELSE fs[p]]

\* Faulty variant: the frame is encoded and yielded before its record is appended.
Imwrite_ThenEncode ==
  /\ procPc = "serving"
  /\ genPc = "imwrite"
  /\ image_filename' = ImageFilename(now)
  /\ artifacts' = WriteFile(artifacts, image_filename', frame)
  /\ genPc' = "imencode"
  /\ written' = WriteFile(written, frame.id, Second(now))
  /\ UNCHANGED <<procPc, dbVars, now, camFrames, frame, emotion, exc, nread,
                 nyield, requested, base, runFrames>>
  /\ listing' = NoListing
  /\ UNCHANGED <<rowFrame, call>>

\* os.makedirs; image_filename = f"captured/{...}.jpg"; cv2.imwrite(...)
Imwrite ==
  /\ procPc = "serving"
  /\ genPc = "imwrite"
  /\ image_filename' = ImageFilename(now)
  /\ artifacts' = WriteFile(artifacts, image_filename', frame)
  /\ genPc' = "save"
  /\ written' = WriteFile(written, frame.id, Second(now))
  /\ UNCHANGED <<procPc, dbVars, now, camFrames, frame, emotion, exc, nread,
                 nyield, requested, base, runFrames>>
  /\ listing' = NoListing
  /\ UNCHANGED <<rowFrame, call>>

\* Faulty variant: the append is wrapped in try/except and the loop goes on.
Save_CatchAndContinue ==
  /\ procPc = "serving"
  /\ genPc = "save"
  /\ \E avail \in BOOLEAN :
       LET r == SaveUserResult(rows, seq, now, avail /\ tableExists,
                               "Anonymous", "online", image_filename, emotion)
       IN /\ rows' = r.rows
          /\ seq' = r.seq
          /\ exc' = "none"
          /\ genPc' = "imencode"
          /\ rowFrame' = IF Len(r.rows) > Len(rows)
                         THEN Append(rowFrame, frame.id) ELSE rowFrame
  /\ UNCHANGED <<procPc, tableExists, artifacts, now, camFrames, frame,
                 emotion, image_filename, nread, nyield, requested, base,
                 runFrames>>
  /\ listing' = NoListing
  /\ UNCHANGED <<written, call>>

\* Faulty variant: the call leaves the mode out (None).
Save_NoMode ==
  /\ procPc = "serving"
  /\ genPc = "save"
  /\ \E avail \in BOOLEAN :
       LET r == SaveUserResult(rows, seq, now, avail /\ tableExists,
                               "Anonymous", NULL, image_filename, emotion)
       IN /\ rows' = r.rows
          /\ seq' = r.seq
          /\ exc' = r.exc
          /\ genPc' = IF r.exc = "none" THEN "imencode" ELSE "raised"
          /\ rowFrame' = IF Len(r.rows) > Len(rows)
                         THEN Append(rowFrame, frame.id) ELSE rowFrame
  /\ UNCHANGED <<procPc, tableExists, artifacts, now, camFrames, frame,
                 emotion, image_filename, nread, nyield, requested, base,
                 runFrames>>
  /\ listing' = NoListing
  /\ UNCHANGED <<written, call>>

\* save_user_result("Anonymous", "online", image_filename, emotion): an
\* exception is not caught and ends the generator.
Save ==
  /\ procPc = "serving"
  /\ genPc = "save"
  /\ \E avail \in BOOLEAN :
       LET r == SaveUserResult(rows, seq, now, avail /\ tableExists,
                               "Anonymous", "online", image_filename, emotion)
       IN /\ rows' = r.rows
          /\ seq' = r.seq
          /\ exc' = r.exc
          /\ genPc' = IF r.exc = "none" THEN "imencode" ELSE "raised"
          /\ rowFrame' = IF Len(r.rows) > Len(rows)
                         THEN Append(rowFrame, frame.id) ELSE rowFrame
  /\ UNCHANGED <<procPc, tableExists, artifacts, now, camFrames, frame,
                 emotion, image_filename, nread, nyield, requested, base,
                 runFrames>>
  /\ listing' = NoListing
  /\ UNCHANGED <<written, call>>

\* ret, buffer = cv2.imencode('.jpg', frame); frame = buffer.tobytes()
Encode ==
  /\ procPc = "serving"
  /\ genPc = "imencode"
  /\ frame' = Imencode(frame)
  /\ genPc' = "yield"
  /\ UNCHANGED <<procPc, dbVars, artifacts, now, camFrames, emotion,
                 image_filename, exc, nread, nyield, requested, base,
                 runFrames>>
  /\ listing' = NoListing
  /\ UNCHANGED <<written, rowFrame, call>>

\* yield (b'--frame...' + frame + b'\r\n'): the payload goes to the consumer
\* and the generator is suspended.
Yield ==
  /\ procPc = "serving"
  /\ genPc = "yield"
  /\ nyield' = nyield + 1
  /\ genPc' = "suspended"
  /\ UNCHANGED <<procPc, dbVars, artifacts, now, camFrames, frame, emotion,
                 image_filename, exc, nread, requested, base, runFrames>>
  /\ listing' = NoListing
  /\ UNCHANGED <<written, rowFrame, call>>

----------------------------------------------------------------------------
(* /users *)

users ==
  /\ procPc = "serving"
  /\ tableExists
  /\ \E s \in SelectAllOrderByTimestampDesc(rows) :
       listing' = [status |-> "200", rows |-> s]
  /\ UNCHANGED <<procPc, dbVars, artifacts, now, camFrames, genVars,
                 written, rowFrame, call>>

----------------------------------------------------------------------------
Next ==
  \/ Tick
  \/ Restart
  \/ Import
  \/ VideoFeed
  \/ NextPayload
  \/ CapRead
  \/ Analyze
  \/ Annotate
  \/ Imwrite
  \/ Save
  \/ Encode
  \/ Yield
  \/ users

Spec == Init /\ [][Next]_vars

----------------------------------------------------------------------------
(* save_user_result called directly, with arguments of the caller's choice. *)

Names == {"Anonymous", NULL}

\* An integer or other value bound to the TEXT column is stored as its text.
Modes == {"online", "offline", "ONLINE", "hybrid", "", "1", NULL}

SaveUserResultCall ==
  /\ procPc = "serving"
  /\ Len(rows) < MaxRows
  /\ \E name \in Names, mode \in Modes, emo \in Emotions \cup {SENTINEL},
        avail \in BOOLEAN :
       LET r == SaveUserResult(rows, seq, now, avail /\ tableExists,
                               name, mode, ImageFilename(now), emo)
       IN /\ rows' = r.rows
          /\ seq' = r.seq
          /\ rowFrame' = IF Len(r.rows) > Len(rows)
                         THEN Append(rowFrame, 0) ELSE rowFrame
          /\ call' = [status |-> "returned", name |-> name,
                      usage_mode |-> mode, exc |-> r.exc, before |-> rows]
  /\ listing' = NoListing
  /\ UNCHANGED <<procPc, tableExists, artifacts, now, camFrames, genVars,
                 written>>

NextLog ==
  \/ Tick
  \/ Restart
  \/ Import
  \/ SaveUserResultCall

SpecLog == Init /\ [][NextLog]_vars

----------------------------------------------------------------------------
(* Properties. *)

\* Records this generator has appended.
NewRecords == Len(rows) - base

\* Frames of this generator whose iteration is past the log append.
PastSave == genPc \in {"imencode", "yield", "suspended", "read", "done"}

\* The frame being processed is one the classifier cannot analyse.
CurrentUnanalysable ==
  nread > 0 /\ runFrames[nread].content \notin Emotions

\* C1: in every run of generate_frames with the store available, one record
\* is appended per processed frame: once the k-th frame is past its append
\* the log holds exactly k new records, their ids increase, and the i-th of
\* them carries the classification of the i-th frame read.
C1_OneRecordPerFrameInOrder ==
  genPc # "none" =>
    /\ NewRecords = IF PastSave \/ genPc = "created" THEN nread ELSE nread - 1
    /\ \A i \in 1..NewRecords :
         /\ rows[base + i].detected_emotion = AnalyzeEmotion(runFrames[i])
         /\ rowFrame[base + i] = runFrames[i].id
         /\ rows[base + i].name = "Anonymous"
         /\ i > 1 => rows[base + i - 1].id < rows[base + i].id

C1_Witness ==
  /\ genPc = "suspended"
  /\ base > 0
  /\ NewRecords = 2
  /\ rows[base + 1].detected_emotion # rows[base + 2].detected_emotion

C3_InvalidModeRejected ==
  (call.status = "returned" /\ call.usage_mode \notin {"online", "offline"})
    => call.exc # "none" /\ rows = call.before

\* C4 as stated: /users returns every record, ordered by timestamp
\* descending, with the most recently inserted record first, also when
\* records share a store-clock second; an empty log gives an empty listing.
C4_MostRecentFirst ==
  listing.status = "200" =>
    /\ Len(listing.rows) = Len(rows)
    /\ OrderedByTimestampDesc(listing.rows)
    /\ Len(rows) > 0 => listing.rows[1] = rows[Len(rows)]

\* C5: when cap.read() reports no frame after k frames, the generator has
\* yielded k payloads and appended k records and ends without an exception
\* (k = 0 included); the only exception that ends a generator is the one
\* raised by the log append.
C5_CleanEndOnExhaustion ==
  /\ genPc = "done" =>
       /\ nyield = nread
       /\ NewRecords = nread
       /\ exc = "none"
  /\ genPc = "raised" => exc = "OperationalError" /\ nyield = nread - 1

C5_Witness ==
  /\ genPc = "done"
  /\ nread = 3
  /\ nyield = 3
  /\ NewRecords = 3

\* C6: init_db on a store that holds the users table leaves the table, its
\* rows and its id counter as they were; on an empty store it creates the
\* table with no rows.
C6_InitDbIdempotent ==
  [][(procPc = "import" /\ procPc' = "serving") =>
       /\ tableExists'
       /\ tableExists => (rows' = rows /\ seq' = seq)
       /\ ~tableExists => rows' = <<>>]_vars

\* init_db has run again on a table that holds rows.
C6_Witness ==
  /\ procPc = "serving"
  /\ genPc = "none"
  /\ Len(rows) >= 2

\* C7: ids are unique and strictly increasing in insertion order, every
\* mode is online or offline, and no step changes or removes a row already
\* written.
C7_LogInvariant ==
  /\ \A i, j \in 1..Len(rows) : i < j => rows[i].id < rows[j].id
  /\ \A i \in 1..Len(rows) : rows[i].usage_mode \in {"online", "offline"}

C7_AppendOnly ==
  /\ Len(rows') >= Len(rows)
  /\ \A i \in 1..Len(rows) : rows'[i] = rows[i]

C8_RaisedState ==
  /\ genPc = "raised" =>
       /\ exc = "OperationalError"
       /\ NewRecords = nread - 1
       /\ nyield = nread - 1
       /\ frame.kind = "annotated"
       /\ image_filename \in DOMAIN artifacts
       /\ artifacts[image_filename] = frame
  /\ genPc \in {"imencode", "yield", "suspended"} => NewRecords = nread

C8_NoRetry ==
  genPc = "raised" =>
    \/ genPc' \in {"created", "none"}
    \/ UNCHANGED <<genPc, rows, nread, nyield, artifacts, camFrames>>

C8_StorageErrorPropagates == []C8_RaisedState /\ [][C8_NoRetry]_vars

C8_Witness ==
  /\ genPc = "raised"
  /\ nread = 2
  /\ nyield = 1

\* C9: within an iteration the steps run in the order classify, annotate,
\* write artifact, append record, encode, yield; a payload is yielded only
\* after its frame's record is appended, and a frame is read only after the
\* previous frame's append and only once the consumer has asked for it.
C9_StepOrder ==
  /\ nread <= requested
  /\ nyield <= nread
  /\ genPc = "read" => requested = nread + 1 /\ NewRecords = nread
  /\ genPc = "analyze" =>
       frame.kind = "raw" /\ NewRecords = nread - 1 /\ requested = nread
  /\ genPc = "putText" =>
       frame.kind = "raw" /\ emotion = AnalyzeEmotion(frame)
  /\ genPc = "imwrite" =>
       /\ frame.kind = "annotated"
       /\ frame.text = <<"Mood: ", emotion>>
       /\ frame.id \notin DOMAIN written
  /\ genPc = "save" =>
       /\ artifacts[image_filename] = frame
       /\ NewRecords = nread - 1
  /\ genPc = "imencode" =>
       /\ frame.kind = "annotated"
       /\ NewRecords = nread
       /\ rowFrame[Len(rows)] = frame.id
       /\ rows[Len(rows)].image_path = image_filename
  /\ genPc = "yield" =>
       frame.kind = "jpeg" /\ NewRecords = nread /\ nyield = nread - 1
  /\ genPc = "suspended" =>
       nyield = nread /\ NewRecords = nread /\ requested = nread

C9_Witness ==
  /\ genPc = "yield"
  /\ nread = 2
  /\ NewRecords = 2

\* The frames of rows i and j had their file names made in the same second.
SameSecond(i, j) == written[rowFrame[i]] = written[rowFrame[j]]

ImagePaths == {rows[k].image_path : k \in 1..Len(rows)}

\* C10 as stated: two frames processed in the same clock second get the
\* same image_path, the later write replaces the earlier image, and the
\* artifact store then holds fewer artifacts than the log holds records;
\* frames processed in different seconds get distinct paths.
C10_Original ==
  \A i, j \in 1..Len(rows) : i < j =>
    /\ SameSecond(i, j) =>
         /\ rows[i].image_path = rows[j].image_path
         /\ artifacts[rows[i].image_path].id >= rowFrame[j]
         /\ Cardinality(DOMAIN artifacts) < Len(rows)
    /\ ~SameSecond(i, j) => rows[i].image_path # rows[j].image_path

\* C10 amended: as above, but what is smaller than the number of records is
\* the number of distinct artifacts the records point at (captured/ may
\* also hold the images of frames that never got a record).
C10_SameSecondSamePath ==
  \A i, j \in 1..Len(rows) : i < j =>
    /\ SameSecond(i, j) =>
         /\ rows[i].image_path = rows[j].image_path
         /\ artifacts[rows[i].image_path].id >= rowFrame[j]
         /\ artifacts[rows[i].image_path].id > rowFrame[i]
         /\ Cardinality(ImagePaths) < Len(rows)
    /\ ~SameSecond(i, j) => rows[i].image_path # rows[j].image_path

C10_Witness ==
  /\ Len(rows) = 3
  /\ SameSecond(1, 2)
  /\ ~SameSecond(2, 3)
  /\ artifacts[rows[1].image_path].id = rowFrame[2]
  /\ Cardinality(DOMAIN artifacts) = 2

====
